---- MODULE Spec2Model ----
(***************************************************************************)
(* Model of the Project Risk Simulator (src/src/App.tsx).                  *)
(*                                                                         *)
(* The program has two threads of control:                                 *)
(*   - the simulation worker (workerCode): a message handler that          *)
(*     normalises the risk rows, runs N Monte-Carlo trials drawing from a  *)
(*     mulberry32 generator, posts a progress message every 1000th trial   *)
(*     and one "done" message carrying the results;                        *)
(*   - the caller (useWorker / RiskSimulatorApp): the React state running, *)
(*     progress, results, the worker reference, and the handlers run(),    *)
(*     stop() and w.onmessage.                                             *)
(*                                                                         *)
(* Numbers.  JavaScript numbers are modelled as integers plus the named    *)
(* values NaN, PosInf, NegInf; Missing is `undefined` and Empty is "".     *)
(* A generator draw is its 32-bit numerator, kept as two 16-bit halves     *)
(* <<hi, lo>>; the draw itself is numerator / 2^32.  A probability is kept *)
(* in percent (p = pct / 100).  Delays are carried in units of 1/256 day   *)
(* (DelayUnit), the square root of a sample being truncated to that unit.  *)
(***************************************************************************)
EXTENDS Integers, Sequences, FiniteSets, TLC

VARIABLES
  \* ---- caller: useWorker state (App.tsx 135-138) ----
  workerRef,   \* id of the worker workerRef.current refers to, 0 = null
  running,     \* useState(false)
  progress,    \* Null or <<[done, total]>>
  results,     \* Null or <<Results>>
  handlers,    \* ids of the workers whose onmessage the caller has set
  \* ---- the worker thread and its two message queues ----
  alive,       \* id of the worker thread that exists, 0 = none
  inbox,       \* requests posted to the worker, not yet handled
  outbox,      \* messages posted by the worker, not yet dispatched to the caller
  \* ---- worker: locals of self.onmessage (App.tsx 57-131) ----
  pc,          \* "idle" (no handler running) or "loop" (inside the trial loop)
  data,        \* e.data of the request being handled
  seed,        \* state of the generator closure, <<hi, lo>>
  R,           \* active risks
  N,           \* number of trials
  slack,       \* slack, in days
  i,           \* trial index
  successCount,
  killedCount,
  notKilledCount,
  sumDelayNotKilled,
  lateDelays,
  anyKill,     \* locals of the last trial executed
  totalDelay,
  \* ---- history (not program state) ----
  issued,      \* number of run requests made so far; request k carries id k
  posted,      \* every message a worker has posted, tagged with its run's id
  started,     \* per run a worker has started: its request and first generator state
  completed,   \* ids of the runs whose handler has returned
  abandoned,   \* ids of the runs the caller has abandoned
  \* ---- the functions of workerCode called on their own ----
  gen,         \* a generator made by makeMulberry32: the seed given, its state
  draws,       \* the draws gen has returned so far, in order
  call,        \* the last call of sampleTriangular or percentile, with its result
  \* ---- the engine variant that tracks cost (not in App.tsx) ----
  budget       \* its locals, as one record

callerVars == <<workerRef, running, progress, results, handlers>>
queueVars  == <<alive, inbox, outbox>>
localVars  == <<pc, data, seed, R, N, slack, i, successCount, killedCount,
                notKilledCount, sumDelayNotKilled, lateDelays, anyKill, totalDelay>>
histVars   == <<issued, posted, started, completed, abandoned>>
sideVars   == <<gen, draws, call, budget>>
vars       == <<callerVars, queueVars, localVars, histVars, sideVars>>

(***************************************************************************)
(* JavaScript values                                                       *)
(***************************************************************************)
PosInf  == 1024 * 1024 * 1024
NegInf  == 0 - PosInf
NaN     == PosInf + 1
Missing == PosInf + 2
Empty   == PosInf + 3

Null    == <<>>
Some(x) == <<x>>

IsFinite(x) == NegInf < x /\ x < PosInf

\* Number(x): undefined -> NaN, "" -> 0, a number -> itself.
JsNumber(x) == IF x = Missing THEN NaN ELSE IF x = Empty THEN 0 ELSE x

\* x || 0 : 0 and NaN are the falsy numbers.
OrZero(x) == IF x = NaN THEN 0 ELSE x

\* x || y on a number x.
OrElse(x, y) == IF x = NaN \/ x = 0 THEN y ELSE x

JsMin(x, y) == IF x = NaN \/ y = NaN THEN NaN ELSE IF x < y THEN x ELSE y
JsMax(x, y) == IF x = NaN \/ y = NaN THEN NaN ELSE IF x > y THEN x ELSE y

\* Relational operators: every comparison with NaN is false.
JsLt(x, y) == x # NaN /\ y # NaN /\ x < y
JsLe(x, y) == x # NaN /\ y # NaN /\ x <= y
JsGt(x, y) == x # NaN /\ y # NaN /\ x > y

\* x + y
JsAdd(x, y) ==
  IF x = NaN \/ y = NaN THEN NaN
  ELSE IF IsFinite(x) /\ IsFinite(y) THEN x + y
  ELSE IF IsFinite(x) THEN y
  ELSE IF IsFinite(y) THEN x
  ELSE IF x = y THEN x ELSE NaN

\* Math.floor of a number given in halves (x stands for x/2).
FloorOfHalves(x) == IF IsFinite(x) THEN x \div 2 ELSE x

(***************************************************************************)
(* 32-bit integer arithmetic on <<hi, lo>> halves                          *)
(***************************************************************************)
W16 == 256 * 256

RECURSIVE Xor16(_, _)
Xor16(a, b) ==
  IF a = 0 THEN b
  ELSE IF b = 0 THEN a
  ELSE (((a % 2) + (b % 2)) % 2) + 2 * Xor16(a \div 2, b \div 2)

RECURSIVE Or16(_, _)
Or16(a, b) ==
  IF a = 0 THEN b
  ELSE IF b = 0 THEN a
  ELSE (IF (a % 2) = 1 \/ (b % 2) = 1 THEN 1 ELSE 0) + 2 * Or16(a \div 2, b \div 2)

\* x ^ y
Xor32(x, y) == <<Xor16(x[1], y[1]), Xor16(x[2], y[2])>>
\* c | x for a constant c < 2^16
Or32(c, x) == <<x[1], Or16(x[2], c)>>
\* 2^k for 1 <= k <= 16
Pow2 == <<2, 4, 8, 16, 32, 64, 128, 256, 512, 1024, 2048, 4096, 8192, 16384, 32768, 65536>>
\* x >>> k for 0 < k < 16
Shr32(x, k) ==
  <<x[1] \div Pow2[k], ((x[1] % Pow2[k]) * Pow2[16 - k]) + (x[2] \div Pow2[k])>>
\* (x + y) | 0
Add32(x, y) ==
  LET lo == x[2] + y[2]
  IN  <<(x[1] + y[1] + (lo \div W16)) % W16, lo % W16>>
\* the low 16 bits of a * b
Mul16Lo(a, b) == (((((a \div 256) * b) % 256) * 256) + ((a % 256) * b)) % W16
\* Math.imul(x, y)
Imul32(x, y) ==
  LET x1 == x[2] \div 256
      x0 == x[2] % 256
      y1 == y[2] \div 256
      y0 == y[2] % 256
      t  == ((x1 * y0 + x0 * y1) * 256) + (x0 * y0)
  IN  <<((x1 * y1) + (t \div W16) + Mul16Lo(x[1], y[2]) + Mul16Lo(x[2], y[1])) % W16,
        t % W16>>

\* seed |= 0 : ToInt32 of a number; NaN and the infinities give 0.
ToInt32(s) == IF IsFinite(s) THEN <<(s \div W16) % W16, s % W16>> ELSE <<0, 0>>

\* 0x6D2B79F5
Increment == <<27947, 31221>>

\* One call of rng(): the new generator state and the numerator of the draw.
rngWithoutLastShift(s0) ==
  LET s  == Add32(s0, Increment)
      t1 == Imul32(Xor32(s, Shr32(s, 15)), Or32(1, s))
      t2 == Xor32(Add32(t1, Imul32(Xor32(t1, Shr32(t1, 7)), Or32(61, t1))), t1)
  IN  [seed |-> s, u |-> t2]
\* without the >>> 0 the numerator is the signed reading of the same 32 bits
rngSigned(s0) ==
  LET s  == Add32(s0, Increment)
      t1 == Imul32(Xor32(s, Shr32(s, 15)), Or32(1, s))
      t2 == Xor32(Add32(t1, Imul32(Xor32(t1, Shr32(t1, 7)), Or32(61, t1))), t1)
      u  == Xor32(t2, Shr32(t2, 14))
  IN  [seed |-> s, u |-> <<IF u[1] >= W16 \div 2 THEN u[1] - W16 ELSE u[1], u[2]>>]
rng(s0) ==
  LET s  == Add32(s0, Increment)
      t1 == Imul32(Xor32(s, Shr32(s, 15)), Or32(1, s))
      t2 == Xor32(Add32(t1, Imul32(Xor32(t1, Shr32(t1, 7)), Or32(61, t1))), t1)
  IN  [seed |-> s, u |-> Xor32(t2, Shr32(t2, 14))]

(***************************************************************************)
(* Program constants                                                       *)
(***************************************************************************)
MaxIterations == 20000
ProgressEvery == 1000
ClockModulus  == 2147483647
MaxRows       == 50

\* Delays are carried in units of 1/DelayUnit day.
DelayUnit == 16 * 16
ToUnits(x) == IF IsFinite(x) THEN x * DelayUnit ELSE x

(***************************************************************************)
(* sampleTriangular (App.tsx 38-44)                                        *)
(***************************************************************************)
RECURSIVE SqrtIter(_, _)
SqrtIter(x, r) ==
  LET r2 == (r + (x \div r)) \div 2
  IN  IF r2 >= r THEN r ELSE SqrtIter(x, r2)

\* floor(Math.sqrt(x)) for an integer x >= 0
Sqrt(x) == IF x < 2 THEN x ELSE SqrtIter(x, x)

\* u <= k with u = <<hi, lo>> / 2^32 and k = (m - a) / (b - a), b - a >= 1
DrawLeK(u, a, m, b) ==
  (u[1] * (b - a)) + (((u[2] * (b - a)) + (W16 - 1)) \div W16) <= (m - a) * W16

\* The sample for a valid triple of finite numbers, in delay units.
FiniteSample(u, a, m, b) ==
  IF DrawLeK(u, a, m, b)
  THEN ToUnits(a) + Sqrt(u[1] * (b - a) * (m - a))
  ELSE ToUnits(b) - Sqrt((W16 - u[1]) * (b - a) * (b - m))

\* The same expressions when a bound is infinite: with b = +Infinity both
\* branches are NaN; with a = -Infinity, k is NaN, the second branch is taken and
\* gives b - Infinity, or NaN when b = m.
NonFiniteSample(a, m, b) ==
  IF a = NegInf /\ IsFinite(b) /\ m < b THEN NegInf ELSE NaN

\* sampleTriangular(a, m, b, rng): the value and the generator state after it.
sampleTriangular(a, m, b, s) ==
  IF ~JsLt(a, b) \/ ~(JsLe(a, m) /\ JsLe(m, b))
  THEN [seed |-> s, value |-> 0]
  ELSE LET d == rng(s)
       IN  [seed  |-> d.seed,
            value |-> IF IsFinite(a) /\ IsFinite(m) /\ IsFinite(b)
                      THEN FiniteSample(d.u, a, m, b)
                      ELSE NonFiniteSample(a, m, b)]

(***************************************************************************)
(* percentile (App.tsx 46-55); p is given in percent, the value returned   *)
(* is 100 times the percentile, which keeps the interpolation exact.       *)
(***************************************************************************)
RECURSIVE Insert(_, _)
Insert(x, sorted) ==
  IF sorted = <<>> THEN <<x>>
  ELSE IF x <= Head(sorted) THEN <<x>> \o sorted
  ELSE <<Head(sorted)>> \o Insert(x, Tail(sorted))

RECURSIVE SortAscending(_)
SortAscending(arr) ==
  IF arr = <<>> THEN <<>> ELSE Insert(Head(arr), SortAscending(Tail(arr)))

percentileWithoutInterpolation(arr, p) ==
  IF Len(arr) = 0 THEN 0
  ELSE 100 * SortAscending(arr)[(((Len(arr) - 1) * p) \div 100) + 1]
percentile(arr, p) ==
  IF Len(arr) = 0 THEN 0
  ELSE LET a   == SortAscending(arr)
           idx == (Len(a) - 1) * p          \* 100 * idx
           lo  == idx \div 100
           hi  == (idx + 99) \div 100
           w   == idx - (lo * 100)          \* 100 * w
       IN  IF lo = hi THEN 100 * a[lo + 1]
           ELSE (a[lo + 1] * (100 - w)) + (a[hi + 1] * w)

(***************************************************************************)
(* Request normalisation (App.tsx 61-79)                                   *)
(***************************************************************************)
\* Date.now() % 2147483647 is taken when Number(data.seed) is falsy.
SeedOf(d, now) == OrElse(JsNumber(d.seed), now % ClockModulus)

\* p, in percent: Math.max(0, Math.min(1, (Number(r.likelihood) || 0) / 100))
Probability(r) == JsMax(0, JsMin(100, OrZero(JsNumber(r.likelihood))))

Field(x) == OrZero(JsNumber(x))

\* Number(r.kill) ? 1 : 0
KillFlag(r) == IF OrZero(JsNumber(r.kill)) # 0 THEN 1 ELSE 0

ActiveRisk(r) ==
  [p |-> Probability(r), a |-> Field(r.min), m |-> Field(r.mode), b |-> Field(r.max),
   kill |-> KillFlag(r)]

\* the condition of line 73
KeptIgnoringKill(x) ==
  /\ IsFinite(x.p)
  /\ x.p > 0
  /\ (x.a # 0 \/ x.m # 0 \/ x.b # 0)
Kept(x) ==
  /\ IsFinite(x.p)
  /\ x.p > 0
  /\ (x.kill = 1 \/ x.a # 0 \/ x.m # 0 \/ x.b # 0)

\* the rows beyond the first MaxRows are left out
RECURSIVE NormalizeFirstRows(_)
NormalizeFirstRows(risks) ==
  IF risks = <<>> THEN <<>>
  ELSE IF Len(risks) > MaxRows THEN NormalizeFirstRows(SubSeq(risks, 1, MaxRows))
  ELSE LET x == ActiveRisk(Head(risks))
       IN  (IF Kept(x) THEN <<x>> ELSE <<>>) \o NormalizeFirstRows(Tail(risks))

RECURSIVE Normalize(_)
Normalize(risks) ==
  IF risks = <<>> THEN <<>>
  ELSE LET x == ActiveRisk(Head(risks))
       IN  (IF Kept(x) THEN <<x>> ELSE <<>>) \o Normalize(Tail(risks))

\* N = Math.max(1, Math.min(20000, Math.floor(Number(data.iterations) || 0)));
\* data.iterations is given in halves.
TrialCountWithoutUpperClamp(d) ==
  JsMax(1, FloorOfHalves(OrZero(JsNumber(d.iterations))))
TrialCount(d) ==
  JsMax(1, JsMin(MaxIterations, FloorOfHalves(OrZero(JsNumber(d.iterations)))))

\* slack = Math.max(0, Number(data.slack) || 0)
SlackOf(d) == JsMax(0, OrZero(JsNumber(d.slack)))

(***************************************************************************)
(* One trial (App.tsx 88-106)                                              *)
(***************************************************************************)
\* rng() < r.p, with the draw <<hi, lo>> / 2^32 and r.p = pct / 100
Occurs(u, pct) == (25 * u[1]) + ((25 * u[2]) \div W16) < pct * (W16 \div 4)

\* r.b > r.a && r.m >= r.a && r.m <= r.b
ValidTriple(r) == JsGt(r.b, r.a) /\ JsLe(r.a, r.m) /\ JsLe(r.m, r.b)

\* The loop over R: the generator state, anyKill and totalDelay after it.
RECURSIVE RiskLoopStoppingAtKill(_, _, _, _)
RiskLoopStoppingAtKill(rs, s, kill, delay) ==
  IF rs = <<>> THEN [seed |-> s, anyKill |-> kill, totalDelay |-> delay]
  ELSE LET r == Head(rs)
           d == rng(s)
       IN  IF Occurs(d.u, r.p)
           THEN IF r.kill = 1
                THEN [seed |-> d.seed, anyKill |-> TRUE, totalDelay |-> delay]
                ELSE LET t == IF ValidTriple(r)
                              THEN sampleTriangular(r.a, r.m, r.b, d.seed)
                              ELSE [seed |-> d.seed, value |-> 0]
                     IN  RiskLoopStoppingAtKill(Tail(rs), t.seed, kill, JsAdd(delay, t.value))
           ELSE RiskLoopStoppingAtKill(Tail(rs), d.seed, kill, delay)

\* the magnitude is drawn for every risk with a valid triple, before the
\* occurrence draw is looked at
RECURSIVE RiskLoopSamplingAhead(_, _, _, _)
RiskLoopSamplingAhead(rs, s, kill, delay) ==
  IF rs = <<>> THEN [seed |-> s, anyKill |-> kill, totalDelay |-> delay]
  ELSE LET r == Head(rs)
           d == rng(s)
           t == IF ValidTriple(r)
                THEN sampleTriangular(r.a, r.m, r.b, d.seed)
                ELSE [seed |-> d.seed, value |-> 0]
       IN  IF Occurs(d.u, r.p)
           THEN RiskLoopSamplingAhead(Tail(rs), t.seed, kill \/ r.kill = 1,
                                      JsAdd(delay, t.value))
           ELSE RiskLoopSamplingAhead(Tail(rs), t.seed, kill, delay)

\* a draw is taken before the list is found to be exhausted
RECURSIVE RiskLoopDrawingAhead(_, _, _, _)
RiskLoopDrawingAhead(rs, s, kill, delay) ==
  LET d == rng(s)
  IN  IF rs = <<>> THEN [seed |-> d.seed, anyKill |-> kill, totalDelay |-> delay]
      ELSE LET r == Head(rs)
           IN  IF Occurs(d.u, r.p)
               THEN LET t == IF ValidTriple(r)
                             THEN sampleTriangular(r.a, r.m, r.b, d.seed)
                             ELSE [seed |-> d.seed, value |-> 0]
                    IN  RiskLoopDrawingAhead(Tail(rs), t.seed, kill \/ r.kill = 1,
                                             JsAdd(delay, t.value))
               ELSE RiskLoopDrawingAhead(Tail(rs), d.seed, kill, delay)

\* anyKill = (r.kill === 1) in place of if (r.kill === 1) anyKill = true
RECURSIVE RiskLoopLastRiskDecides(_, _, _, _)
RiskLoopLastRiskDecides(rs, s, kill, delay) ==
  IF rs = <<>> THEN [seed |-> s, anyKill |-> kill, totalDelay |-> delay]
  ELSE LET r == Head(rs)
           d == rng(s)
       IN  IF Occurs(d.u, r.p)
           THEN LET t == IF ValidTriple(r)
                         THEN sampleTriangular(r.a, r.m, r.b, d.seed)
                         ELSE [seed |-> d.seed, value |-> 0]
                IN  RiskLoopLastRiskDecides(Tail(rs), t.seed, r.kill = 1,
                                            JsAdd(delay, t.value))
           ELSE RiskLoopLastRiskDecides(Tail(rs), d.seed, kill, delay)

\* a triple that is not valid but constant adds its constant
RECURSIVE RiskLoopAddingConstant(_, _, _, _)
RiskLoopAddingConstant(rs, s, kill, delay) ==
  IF rs = <<>> THEN [seed |-> s, anyKill |-> kill, totalDelay |-> delay]
  ELSE LET r == Head(rs)
           d == rng(s)
       IN  IF Occurs(d.u, r.p)
           THEN LET t == IF ValidTriple(r)
                         THEN sampleTriangular(r.a, r.m, r.b, d.seed)
                         ELSE [seed |-> d.seed,
                               value |-> IF r.a = r.m /\ r.m = r.b THEN ToUnits(r.a) ELSE 0]
                IN  RiskLoopAddingConstant(Tail(rs), t.seed, kill \/ r.kill = 1,
                                           JsAdd(delay, t.value))
           ELSE RiskLoopAddingConstant(Tail(rs), d.seed, kill, delay)

RECURSIVE RiskLoop(_, _, _, _)
RiskLoop(rs, s, kill, delay) ==
  IF rs = <<>> THEN [seed |-> s, anyKill |-> kill, totalDelay |-> delay]
  ELSE LET r == Head(rs)
           d == rng(s)
       IN  IF Occurs(d.u, r.p)
           THEN LET t == IF ValidTriple(r)
                         THEN sampleTriangular(r.a, r.m, r.b, d.seed)
                         ELSE [seed |-> d.seed, value |-> 0]
                IN  RiskLoop(Tail(rs), t.seed, kill \/ r.kill = 1, JsAdd(delay, t.value))
           ELSE RiskLoop(Tail(rs), d.seed, kill, delay)

\* const success = !anyKill && totalDelay <= slack
SuccessStrictlyBelowSlack(kill, delay, s) == ~kill /\ JsLt(delay, ToUnits(s))
Success(kill, delay, s) == ~kill /\ JsLe(delay, ToUnits(s))

\* if (totalDelay > slack) lateDelays.push(totalDelay), for a trial not killed
LateAtOrAboveSlack(kill, delay, s) == ~kill /\ ~JsLt(delay, ToUnits(s))
Late(kill, delay, s) == ~kill /\ JsGt(delay, ToUnits(s))

\* the results object of the "done" message (lines 110-129); a quotient x / y
\* is kept as the pair <<x, y>>
\* the rates as percentages, and the mean without the test of notKilled
ResultsInPercent(n, succ, killed, notKilled, sum, late) ==
  [successPct             |-> <<100 * succ, n>>,
   killedPct              |-> <<100 * killed, n>>,
   expectedDelayNotKilled |-> <<sum, notKilled>>,
   p50Late                |-> percentile(late, 50),
   p85Late                |-> percentile(late, 85),
   p90Late                |-> percentile(late, 90),
   runs                   |-> n,
   lateCount              |-> Len(late),
   notKilledCount         |-> notKilled]
Results(n, succ, killed, notKilled, sum, late) ==
  [successPct             |-> <<succ, n>>,
   killedPct              |-> <<killed, n>>,
   expectedDelayNotKilled |-> IF notKilled # 0 THEN <<sum, notKilled>> ELSE <<0, 1>>,
   p50Late                |-> percentile(late, 50),
   p85Late                |-> percentile(late, 85),
   p90Late                |-> percentile(late, 90),
   runs                   |-> n,
   lateCount              |-> Len(late),
   notKilledCount         |-> notKilled]

(***************************************************************************)
(* Bounds and inputs                                                       *)
(***************************************************************************)
MaxRisks  == 2    \* longest list of ordinary rows
MaxTrials == 3    \* largest ordinary iteration count
MaxClock  == 2    \* Date.now() and Math.random() range over 1..MaxClock
MaxRuns   == 2    \* run() calls of the caller

ClockValues  == 1..MaxClock
RandomValues == 1..MaxClock

\* A whole number n as a request's iterations field, which is kept in halves.
InHalves(n) == IF IsFinite(n) THEN 2 * n ELSE n

Row(l, a, m, b, k) ==
  [likelihood |-> l, min |-> a, mode |-> m, max |-> b, kill |-> k,
   costMin |-> Missing, costMode |-> Missing, costMax |-> Missing]

KillRow     == Row(50, 0, 0, 0, 1)
DelayRow    == Row(50, 2, 4, 7, 0)
ConstantRow == Row(100, 5, 5, 5, 0)
ZeroRow     == Row(50, 0, 0, 0, 0)
CostRow     == [Row(100, 0, 0, 0, 0) EXCEPT !.costMin = 10, !.costMode = 10, !.costMax = 10]

CoreRows == {KillRow, DelayRow, ConstantRow}

SpecialRows ==
  { Row(0, 0, 0, 0, 1),            Row(NaN, 2, 4, 7, 1),
    Row(Missing, Missing, Missing, Missing, Missing),
    Row(PosInf, 0, 0, 0, 1),       Row(NegInf, 0, 0, 0, 1),
    Row(100, 0, 0, PosInf, 0),     Row(100, NegInf, 0, 3, 0),
    Row(100, NaN, Missing, 3, 0),  Row(100, 3, 2, 1, 0),
    Row(150, 0, 0, 0, 1),          Row(0 - 5, 2, 4, 7, 0),
    Row(100, 0, 0, 0, 1),          Row(70, 0, 0, 0, 5),
    ZeroRow,                       CostRow }

SeqsUpTo(S, n) == UNION {[1..k -> S] : k \in 0..n}

CoreLists    == SeqsUpTo(CoreRows, MaxRisks)
SpecialLists == {<<r>> : r \in SpecialRows} \cup {<<DelayRow, r, KillRow>> : r \in SpecialRows}

Req(sd, rs, it, sl) ==
  [cmd |-> "run", seed |-> sd, risks |-> rs, iterations |-> it, slack |-> sl,
   budgetSlack |-> Missing, id |-> 0]

CoreRequests ==
  {Req(sd, rs, InHalves(n), sl) :
     sd \in {Missing, 0, 1}, rs \in CoreLists, n \in 1..MaxTrials, sl \in {0, 3}}

\* A kill that is certain, ahead of a delay that is certain.
KillThenDelay == <<Row(100, 0, 0, 0, 1), Row(100, 2, 4, 7, 0)>>

RowRequests == {Req(1, rs, InHalves(2), 0) : rs \in SpecialLists \cup {KillThenDelay}}

CostRequests == {[Req(1, <<CostRow>>, InHalves(2), 0) EXCEPT !.budgetSlack = 5]}

IterationRequests ==
  {Req(2, <<KillRow>>, it, 0) : it \in {Missing, NaN, NegInf, 0 - 4, 0, 1, 5}}

SlackRequests ==
  {Req(2, <<DelayRow, DelayRow>>, InHalves(2), sl) : sl \in {Missing, NaN, 0 - 1, PosInf, NegInf, 5}}

SeedRequests ==
  {Req(sd, <<DelayRow>>, InHalves(2), 3) : sd \in {NaN, PosInf, 0 - 1, 12345}}

\* The scenarios of the design document, for several seeds and iterations:
\* a kill that is certain, alone and among other rows, and constant triples.
ScenarioLists ==
  { <<Row(100, 0, 0, 0, 1)>>, <<DelayRow, Row(100, 0, 0, 0, 1), DelayRow>>,
    <<ConstantRow>>, <<Row(50, 3, 3, 3, 0), ConstantRow>> }

ScenarioRequests ==
  {Req(sd, rs, InHalves(MaxTrials), 0) : sd \in {Missing, 7}, rs \in ScenarioLists}

\* A table of MaxRows + 1 rows: a delay first, a certain kill last.
LongRows ==
  [k \in 1..(MaxRows + 1) |->
     IF k = 1 THEN DelayRow ELSE IF k = MaxRows + 1 THEN Row(100, 0, 0, 0, 1) ELSE ZeroRow]

\* The table as a request, whole and cut to its first MaxRows rows.
LongRowsRequests ==
  {Req(1, rs, InHalves(2), 0) : rs \in {LongRows, SubSeq(LongRows, 1, MaxRows)}}

LongScenarioRequests ==
  {Req(sd, rs, InHalves(100), 0) : sd \in {Missing, 7}, rs \in ScenarioLists}

OtherRequests == {[Req(1, <<KillRow>>, InHalves(2), 0) EXCEPT !.cmd = "ping"]}

\* Requests that are handled twice in a row by the same worker.
SmallRequests ==
  CoreRequests \cup RowRequests \cup CostRequests \cup IterationRequests
    \cup SlackRequests \cup SeedRequests \cup ScenarioRequests \cup OtherRequests

\* Requests with many trials, handled once.
LargeRequests ==
  {Req(1, <<>>, it, 0) :
     it \in {InHalves(ProgressEvery + 1), InHalves(MaxIterations) + 3}}
    \cup LongScenarioRequests \cup LongRowsRequests

WithIds(q) == [k \in 1..Len(q) |-> [q[k] EXCEPT !.id = k]]

EngineInboxes ==
  {WithIds(<<d, d>>) : d \in SmallRequests} \cup {WithIds(<<d>>) : d \in LargeRequests}

(***************************************************************************)
(* The worker: self.onmessage (App.tsx 57-131)                             *)
(***************************************************************************)
NoData == [cmd |-> "none"]

\* The locals of a handler that is not running, in the order of localVars.
IdleLocals == <<"idle", NoData, <<0, 0>>, <<>>, 0, 0, 0, 0, 0, 0, 0, <<>>, FALSE, 0>>

LocalsInit ==
  /\ pc = IdleLocals[1]
  /\ data = IdleLocals[2]
  /\ seed = IdleLocals[3]
  /\ R = IdleLocals[4]
  /\ N = IdleLocals[5]
  /\ slack = IdleLocals[6]
  /\ i = IdleLocals[7]
  /\ successCount = IdleLocals[8]
  /\ killedCount = IdleLocals[9]
  /\ notKilledCount = IdleLocals[10]
  /\ sumDelayNotKilled = IdleLocals[11]
  /\ lateDelays = IdleLocals[12]
  /\ anyKill = IdleLocals[13]
  /\ totalDelay = IdleLocals[14]

\* The handler's frame is gone: it returned, or its thread was terminated.
LocalsReset ==
  /\ pc' = IdleLocals[1]
  /\ data' = IdleLocals[2]
  /\ seed' = IdleLocals[3]
  /\ R' = IdleLocals[4]
  /\ N' = IdleLocals[5]
  /\ slack' = IdleLocals[6]
  /\ i' = IdleLocals[7]
  /\ successCount' = IdleLocals[8]
  /\ killedCount' = IdleLocals[9]
  /\ notKilledCount' = IdleLocals[10]
  /\ sumDelayNotKilled' = IdleLocals[11]
  /\ lateDelays' = IdleLocals[12]
  /\ anyKill' = IdleLocals[13]
  /\ totalDelay' = IdleLocals[14]

\* (self as any).postMessage(m) for each m of msgs, by the run `run` of the
\* worker `alive`; a message carries, besides its data, the worker it comes
\* from (the Worker object its event is dispatched to) and its run's id.
Post(msgs, run) ==
  LET tagged == [k \in 1..Len(msgs) |-> [msgs[k] EXCEPT !.run = run, !.from = alive]]
  IN  /\ outbox' = outbox \o tagged
      /\ posted' = posted \o tagged

ProgressMsg(d, t) == [type |-> "progress", done |-> d, total |-> t, run |-> 0, from |-> 0]
DoneMsg(res)      == [type |-> "done", results |-> res, run |-> 0, from |-> 0]

\* for (let i = 0; i < N; i++), line 87
LoopGuardInclusive(k, n) == k <= n
LoopGuard(k, n) == k < n

\* if (i % 1000 === 0) postMessage({type: "progress", done: i, total: N}), line 107
ProgressDueCountingFromOne(k, n) ==
  IF (k + 1) % ProgressEvery = 0 THEN <<ProgressMsg(k + 1, n)>> ELSE <<>>
ProgressDue(k, n) == IF k % ProgressEvery = 0 THEN <<ProgressMsg(k, n)>> ELSE <<>>

\* the messages posted after the loop, lines 117-130
FinalMessagesWithLastProgress(n, res) == <<DoneMsg(res), ProgressMsg(n, n)>>
FinalMessages(n, res) == <<DoneMsg(res)>>

\* The clock is read only when Number(data.seed) is falsy (line 61).
ClockReads(d) == IF OrElse(JsNumber(d.seed), 0) = 0 THEN ClockValues ELSE {0}

\* No generator made, no function called, no cost-tracking engine running.
NoCall == [fn |-> "none"]
BudgetOff == [pc |-> "off"]
SideInit ==
  /\ gen = [made |-> 0, state |-> <<0, 0>>]
  /\ draws = <<>>
  /\ call = NoCall
  /\ budget = BudgetOff

\* Lines 57-85: the handler starts on the next request.
WorkerReceive ==
  /\ alive # 0
  /\ pc = "idle"
  /\ inbox # <<>>
  /\ inbox' = Tail(inbox)
  /\ LET d == Head(inbox)
     IN  IF d.cmd # "run"
         THEN UNCHANGED <<localVars, started>>
         ELSE \E now \in ClockReads(d) :
                /\ pc' = "loop"
                /\ data' = d
                /\ seed' = ToInt32(SeedOf(d, now))
                /\ R' = Normalize(d.risks)
                /\ N' = TrialCount(d)
                /\ slack' = SlackOf(d)
                /\ i' = 0
                /\ successCount' = 0
                /\ killedCount' = 0
                /\ notKilledCount' = 0
                /\ sumDelayNotKilled' = 0
                /\ lateDelays' = <<>>
                /\ anyKill' = FALSE
                /\ totalDelay' = 0
                /\ started' = started \cup {[id |-> d.id, request |-> d, seed |-> seed']}
  /\ UNCHANGED <<sideVars, callerVars, alive, outbox, issued, posted, completed, abandoned>>

\* Lines 87-108: one pass of the trial loop.
WorkerTrial ==
  /\ alive # 0
  /\ pc = "loop"
  /\ LoopGuard(i, N)
  /\ \E t \in {RiskLoop(R, seed, FALSE, 0)} :
         /\ seed' = t.seed
         /\ anyKill' = t.anyKill
         /\ totalDelay' = t.totalDelay
         /\ successCount' = successCount
                              + (IF Success(t.anyKill, t.totalDelay, slack) THEN 1 ELSE 0)
         /\ killedCount' = killedCount + (IF t.anyKill THEN 1 ELSE 0)
         /\ notKilledCount' = notKilledCount + (IF ~t.anyKill THEN 1 ELSE 0)
         /\ sumDelayNotKilled' = IF ~t.anyKill THEN JsAdd(sumDelayNotKilled, t.totalDelay)
                                 ELSE sumDelayNotKilled
         /\ lateDelays' = IF Late(t.anyKill, t.totalDelay, slack)
                          THEN Append(lateDelays, t.totalDelay) ELSE lateDelays
  /\ Post(ProgressDue(i, N), data.id)
  /\ i' = i + 1
  /\ UNCHANGED <<sideVars, callerVars, alive, inbox, pc, data, R, N, slack,
                 issued, started, completed, abandoned>>

\* Lines 110-131: the results are posted and the handler returns.
WorkerFinish ==
  /\ alive # 0
  /\ pc = "loop"
  /\ ~LoopGuard(i, N)
  /\ Post(FinalMessages(N, Results(N, successCount, killedCount, notKilledCount,
                                    sumDelayNotKilled, lateDelays)), data.id)
  /\ completed' = completed \cup {data.id}
  /\ LocalsReset
  /\ UNCHANGED <<sideVars, callerVars, alive, inbox, issued, started, abandoned>>

(***************************************************************************)
(* The engine alone: a worker that is sent requests of any shape           *)
(***************************************************************************)
EngineInit ==
  /\ workerRef = 0
  /\ running = FALSE
  /\ progress = Null
  /\ results = Null
  /\ handlers = {}
  /\ alive = 1
  /\ inbox \in EngineInboxes
  /\ outbox = <<>>
  /\ LocalsInit
  /\ issued = Len(inbox)
  /\ posted = <<>>
  /\ started = {}
  /\ completed = {}
  /\ abandoned = {}
  /\ SideInit

EngineNext == WorkerReceive \/ WorkerTrial \/ WorkerFinish

EngineSpec == EngineInit /\ [][EngineNext]_vars

(***************************************************************************)
(* The caller: RiskSimulatorApp.handleRun and useWorker (App.tsx 134-255)  *)
(***************************************************************************)
\* The form fields read by handleRun: the rows of the table ("" in an empty
\* cell), iterations (in halves), slack, and the seed box ("" when empty).
Ui(rs, it, sl, sd) == [risks |-> rs, iterations |-> it, slack |-> sl, seed |-> sd]

EmptyRow == Row(Empty, Empty, Empty, Empty, Empty)

UiInputs ==
  { Ui(<<Row(50, Empty, Empty, Empty, 1), DelayRow>>, InHalves(MaxTrials - 1), 3, 1),
    Ui(<<DelayRow, EmptyRow>>, 5, 0, Empty),
    Ui(<<EmptyRow, Row(100, 0, 0, 0, 1), ZeroRow>>, 0, 0 - 1, 0) }

\* r.x === "" ? 0 : Number(r.x)
PrepareField(x) == IF x = Empty THEN 0 ELSE JsNumber(x)

PrepareRow(r) ==
  [r EXCEPT !.likelihood = PrepareField(r.likelihood), !.min = PrepareField(r.min),
            !.mode = PrepareField(r.mode), !.max = PrepareField(r.max),
            !.kill = PrepareField(r.kill)]

\* the filter of lines 246-249
PreparedKept(r) ==
  /\ JsGt(r.likelihood, 0)
  /\ (r.kill = 1 \/ (IsFinite(r.min) /\ IsFinite(r.mode) /\ IsFinite(r.max)))

\* risks.slice(0, 50).map(...).filter(...)
Prepare(risks) ==
  LET sliced == SubSeq(risks, 1, IF Len(risks) < MaxRows THEN Len(risks) ELSE MaxRows)
      mapped == [k \in 1..Len(sliced) |-> PrepareRow(sliced[k])]
  IN  SelectSeq(mapped, PreparedKept)

\* Math.max(1, Math.min(20000, Math.floor(iterations))), line 251
PreparedIterations(ui) == JsMax(1, JsMin(MaxIterations, FloorOfHalves(ui.iterations)))

\* Math.random() is read only when the seed box is empty (line 253).
RandomReads(ui) == IF ui.seed = Empty THEN RandomValues ELSE {0}

\* run() called whatever the value of running (the hook itself has no guard)
HandleRunWhileRunning(ui) ==
  /\ workerRef # 0
  /\ issued < MaxRuns
  /\ \E rnd \in RandomReads(ui) :
       LET iters == PreparedIterations(ui)
           sd    == IF ui.seed # Empty THEN JsNumber(ui.seed) ELSE rnd
           req   == [cmd |-> "run", risks |-> Prepare(ui.risks),
                     iterations |-> InHalves(iters),
                     slack |-> JsMax(0, JsNumber(ui.slack)), seed |-> sd,
                     budgetSlack |-> Missing, id |-> issued + 1]
       IN  /\ running' = TRUE
           /\ results' = Null
           /\ progress' = Some([done |-> 0,
                                total |-> JsMin(MaxIterations,
                                                JsMax(1, FloorOfHalves(InHalves(iters))))])
           /\ inbox' = Append(inbox, req)
  /\ issued' = issued + 1
  /\ UNCHANGED <<sideVars, workerRef, handlers, alive, outbox, localVars,
                 posted, started, completed, abandoned>>

\* handleRun, which calls run(prepared, iters, slackDays, sd) (lines 164-170).
\* The Run button is rendered only while running is false (line 289).
HandleRun(ui) ==
  /\ ~running
  /\ workerRef # 0
  /\ issued < MaxRuns
  /\ \E rnd \in RandomReads(ui) :
       LET iters == PreparedIterations(ui)
           sd    == IF ui.seed # Empty THEN JsNumber(ui.seed) ELSE rnd
           req   == [cmd |-> "run", risks |-> Prepare(ui.risks),
                     iterations |-> InHalves(iters),
                     slack |-> JsMax(0, JsNumber(ui.slack)), seed |-> sd,
                     budgetSlack |-> Missing, id |-> issued + 1]
       IN  /\ running' = TRUE
           /\ results' = Null
           /\ progress' = Some([done |-> 0,
                                total |-> JsMin(MaxIterations,
                                                JsMax(1, FloorOfHalves(InHalves(iters))))])
           /\ inbox' = Append(inbox, req)
  /\ issued' = issued + 1
  /\ UNCHANGED <<sideVars, workerRef, handlers, alive, outbox, localVars,
                 posted, started, completed, abandoned>>

\* Worker.terminate(): the thread stops at once; the requests it had not
\* handled and the messages it had posted that were not yet dispatched are
\* discarded with it.
TerminateKeepingPosted ==
  /\ inbox' = <<>>
  /\ outbox' = outbox
  /\ LocalsReset
Terminate ==
  /\ inbox' = <<>>
  /\ outbox' = <<>>
  /\ LocalsReset

\* stop() without its last line, setProgress(null)
StopKeepingProgress ==
  /\ running
  /\ workerRef # 0
  /\ Terminate
  /\ alive' = alive + 1
  /\ workerRef' = alive + 1
  /\ running' = FALSE
  /\ progress' = progress
  /\ abandoned' = abandoned \cup {issued}
  /\ UNCHANGED <<sideVars, results, handlers, issued, posted, started, completed>>

\* stop (lines 172-183).  The Stop button is rendered only while running.
\* The replacement worker is given no onmessage handler.
Stop ==
  /\ running
  /\ workerRef # 0
  /\ Terminate
  /\ alive' = alive + 1
  /\ workerRef' = alive + 1
  /\ running' = FALSE
  /\ progress' = Null
  /\ abandoned' = abandoned \cup {issued}
  /\ UNCHANGED <<sideVars, results, handlers, issued, posted, started, completed>>

\* w.onmessage (lines 148-156): the next message of the worker is dispatched
\* to the Worker object it came from; an object without handler drops it.
OnMessage ==
  /\ outbox # <<>>
  /\ outbox' = Tail(outbox)
  /\ LET m == Head(outbox)
     IN  IF m.from \notin handlers
         THEN UNCHANGED <<running, progress, results>>
         ELSE IF m.type = "progress"
         THEN /\ progress' = Some([done |-> m.done, total |-> m.total])
              /\ UNCHANGED <<running, results>>
         ELSE IF m.type = "done"
         THEN /\ results' = Some(m.results)
              /\ running' = FALSE
              /\ progress' = Null
         ELSE UNCHANGED <<running, progress, results>>
  /\ UNCHANGED <<sideVars, workerRef, handlers, alive, inbox, localVars, histVars>>

\* The cleanup of the effect (lines 158-161) terminates w, the worker made on
\* mount, and clears the reference; a worker made by stop() is left running.
Unmount ==
  /\ workerRef # 0
  /\ workerRef' = 0
  /\ IF alive = 1
     THEN /\ Terminate
          /\ alive' = 0
          /\ abandoned' = IF running THEN abandoned \cup {issued} ELSE abandoned
     ELSE UNCHANGED <<alive, inbox, outbox, localVars, abandoned>>
  /\ UNCHANGED <<sideVars, running, progress, results, handlers, issued, posted, started, completed>>

\* The state after the first render and its effect (lines 135-156).
Init ==
  /\ workerRef = 1
  /\ running = FALSE
  /\ progress = Null
  /\ results = Null
  /\ handlers = {1}
  /\ alive = 1
  /\ inbox = <<>>
  /\ outbox = <<>>
  /\ LocalsInit
  /\ issued = 0
  /\ posted = <<>>
  /\ started = {}
  /\ completed = {}
  /\ abandoned = {}
  /\ SideInit

Next ==
  \/ \E ui \in UiInputs : HandleRun(ui)
  \/ Stop
  \/ OnMessage
  \/ Unmount
  \/ WorkerReceive
  \/ WorkerTrial
  \/ WorkerFinish

Spec == Init /\ [][Next]_vars

\* A pass of the trial loop, seen through i alone: in a behaviour of Spec the
\* steps that add 1 to i inside the loop are the WorkerTrial steps, and both
\* are enabled exactly when the worker is alive inside the loop with i < N.
TrialStep == alive # 0 /\ pc = "loop" /\ LoopGuard(i, N) /\ i' = i + 1

\* The worker thread runs its handler to completion and the event loop of
\* the page dispatches every message it has queued; the user is free never
\* to press a button again.
FairSpec ==
  /\ Spec
  /\ WF_vars(WorkerReceive) /\ WF_i(TrialStep) /\ WF_vars(WorkerFinish)
  /\ WF_vars(OnMessage)

(***************************************************************************)
(* The functions of workerCode called on their own: makeMulberry32,        *)
(* sampleTriangular and percentile (App.tsx 28-55)                         *)
(***************************************************************************)
MaxDraws == 6     \* draws taken from one generator

\* Seeds given to makeMulberry32: the ends of the 32-bit range among them.
GeneratorSeeds == {0, 1, 0 - 1, 12345, 2147483647, (0 - 2147483647) - 1, 305419896}

\* makeMulberry32(seed) for a seed that is a 32-bit integer (here a plain
\* integer over the whole 32-bit range, not a value of the request): the
\* closure's state is the seed, which seed |= 0 leaves as it is.
Int32Halves(x) == <<(x \div W16) % W16, x % W16>>
makeMulberry32(sd) == [made |-> sd, state |-> Int32Halves(sd)]

\* Neither a worker nor a caller exists.
AppOff ==
  /\ workerRef = 0
  /\ running = FALSE
  /\ progress = Null
  /\ results = Null
  /\ handlers = {}
  /\ alive = 0
  /\ inbox = <<>>
  /\ outbox = <<>>
  /\ LocalsInit
  /\ issued = 0
  /\ posted = <<>>
  /\ started = {}
  /\ completed = {}
  /\ abandoned = {}

appVars == <<callerVars, queueVars, localVars, histVars>>

\* One call of the generator: rng().
Draw ==
  /\ Len(draws) < MaxDraws
  /\ LET d == rng(gen.state)
     IN  /\ gen' = [gen EXCEPT !.state = d.seed]
         /\ draws' = Append(draws, d.u)
  /\ UNCHANGED <<appVars, call, budget>>

\* Triples given to sampleTriangular: valid, invalid, and with infinite ends.
Triples ==
  { <<2, 4, 7>>, <<0, 0, 1>>, <<0, 1, 1>>, <<0 - 3, 0 - 1, 2>>, <<1, 2, 30>>,
    <<5, 5, 5>>, <<0, 0, 0>>, <<3, 2, 1>>, <<2, 8, 7>>, <<2, 1, 7>>, <<7, 4, 2>>,
    <<NegInf, 0, 3>>, <<NegInf, 3, 3>>, <<0, 0, PosInf>>, <<NaN, 1, 2>> }

\* One call sampleTriangular(a, m, b, rng) with the generator gen.
CallSampleTriangular ==
  /\ Len(draws) < MaxDraws
  /\ \E t \in Triples :
       LET r == sampleTriangular(t[1], t[2], t[3], gen.state)
       IN  /\ gen' = [gen EXCEPT !.state = r.seed]
           /\ draws' = IF r.seed = gen.state THEN draws
                       ELSE Append(draws, rng(gen.state).u)
           /\ call' = [fn |-> "sampleTriangular", a |-> t[1], m |-> t[2], b |-> t[3],
                       drew |-> r.seed # gen.state, value |-> r.value]
  /\ UNCHANGED <<appVars, budget>>

GeneratorInit ==
  /\ AppOff
  /\ \E sd \in GeneratorSeeds : gen = makeMulberry32(sd)
  /\ draws = <<>>
  /\ call = NoCall
  /\ budget = BudgetOff

GeneratorNext == Draw \/ CallSampleTriangular

GeneratorSpec == GeneratorInit /\ [][GeneratorNext]_vars

(***************************************************************************)
(* percentile called on its own, and the histogram of the design document  *)
(* (StatisticsAggregator), whose code is not in App.tsx                    *)
(***************************************************************************)
MaxArray == 4     \* longest array given to percentile

\* Arrays of delays, in days, in any order and with repetitions.
Arrays   == SeqsUpTo(1..4, MaxArray)
\* p, in percent: the three the engine asks for, and the two ends
Percents == {0, 50, 85, 90, 100}

\* A call about to be made: the function and its arguments.
PercentileCalls == {[fn |-> "percentile", arr |-> arr, p |-> p, done |-> FALSE] :
                      arr \in Arrays, p \in Percents}
HistogramCalls  == {[fn |-> "histogram", arr |-> arr, done |-> FALSE] : arr \in Arrays}

\* percentile(arr, p): arr.slice() is sorted, so arr is left as it was.
CallPercentile ==
  /\ call.fn = "percentile"
  /\ ~call.done
  /\ call' = [fn |-> "percentile", arr |-> call.arr, p |-> call.p, done |-> TRUE,
              value |-> percentile(call.arr, call.p), left |-> call.arr]
  /\ UNCHANGED <<appVars, gen, draws, budget>>

\* B = 20 buckets
Buckets == 20

\* max(array)
RECURSIVE MaxOf(_)
MaxOf(arr) ==
  IF Len(arr) = 1 THEN arr[1]
  ELSE IF arr[1] >= MaxOf(Tail(arr)) THEN arr[1] ELSE MaxOf(Tail(arr))

\* min(B - 1, floor(value / width)) with width = max / B if max > 0 else 1
BucketOfWithoutClamp(v, max) ==
  IF max > 0 THEN (v * Buckets) \div max ELSE v
BucketOf(v, max) ==
  LET b == IF max > 0 THEN (v * Buckets) \div max ELSE v
  IN  IF b < Buckets - 1 THEN b ELSE Buckets - 1

\* The histogram of a source array: Null for an empty array, otherwise the
\* counts of buckets 0..B-1 and the maximum, for the axis.
Histogram(arr) ==
  IF arr = <<>> THEN Null
  ELSE Some([bins |-> [b \in 0..(Buckets - 1) |->
                        Cardinality({k \in 1..Len(arr) : BucketOf(arr[k], MaxOf(arr)) = b})],
             maxX |-> MaxOf(arr)])

CallHistogram ==
  /\ call.fn = "histogram"
  /\ ~call.done
  /\ call' = [fn |-> "histogram", arr |-> call.arr, done |-> TRUE,
              value |-> Histogram(call.arr)]
  /\ UNCHANGED <<appVars, gen, draws, budget>>

StatisticsInit ==
  /\ AppOff
  /\ gen = [made |-> 0, state |-> <<0, 0>>]
  /\ draws = <<>>
  /\ call \in PercentileCalls \cup HistogramCalls
  /\ budget = BudgetOff

StatisticsNext == CallPercentile \/ CallHistogram

StatisticsSpec == StatisticsInit /\ [][StatisticsNext]_vars

(***************************************************************************)
(* Cost, which the engine of App.tsx does not have: defined from the       *)
(* design document (SimulationRunner) to state what it says of cost.       *)
(***************************************************************************)
\* A row whose cost triple is a nonzero constant and whose probability is 1
\* occurs in every trial and adds that constant to the trial's totalCost.
CertainCost(r) ==
  IF /\ Probability(r) = 100
     /\ Field(r.costMin) # 0
     /\ Field(r.costMin) = Field(r.costMode)
     /\ Field(r.costMode) = Field(r.costMax)
  THEN Field(r.costMin) ELSE 0

\* totalCost of a trial, for requests whose only cost-bearing rows are such rows
RECURSIVE TrialCost(_)
TrialCost(risks) ==
  IF risks = <<>> THEN 0 ELSE CertainCost(Head(risks)) + TrialCost(Tail(risks))

BudgetSlackOf(d) == JsMax(0, OrZero(JsNumber(d.budgetSlack)))

(***************************************************************************)
(* The engine variant with cost tracking (SimulationRunner of the design   *)
(* document, 4.3 and 4.4), whose code is not in App.tsx.  Its state is the *)
(* record budget.  Costs are carried in the fixed point of the delays.     *)
(***************************************************************************)
CostOf(r, ca, cm, cb) == [r EXCEPT !.costMin = ca, !.costMode = cm, !.costMax = cb]

\* ActiveRisk with its cost triple
BudgetRisk(r) ==
  [p |-> Probability(r), a |-> Field(r.min), m |-> Field(r.mode), b |-> Field(r.max),
   kill |-> KillFlag(r),
   ca |-> Field(r.costMin), cm |-> Field(r.costMode), cb |-> Field(r.costMax)]

\* probability > 0 and: killFlag, or a delay triple not all zero, or a cost
\* triple not all zero
BudgetKept(x) ==
  /\ IsFinite(x.p)
  /\ x.p > 0
  /\ \/ x.kill = 1
     \/ x.a # 0 \/ x.m # 0 \/ x.b # 0
     \/ x.ca # 0 \/ x.cm # 0 \/ x.cb # 0

RECURSIVE BudgetNormalize(_)
BudgetNormalize(risks) ==
  IF risks = <<>> THEN <<>>
  ELSE LET x == BudgetRisk(Head(risks))
       IN  (IF BudgetKept(x) THEN <<x>> ELSE <<>>) \o BudgetNormalize(Tail(risks))

\* the cost triple of a risk, as a triple (a, m, b)
CostTriple(r) == [a |-> r.ca, m |-> r.cm, b |-> r.cb]

\* a cost triple that is a nonzero constant
ConstantCost(r) == r.ca = r.cm /\ r.cm = r.cb /\ r.ca # 0

\* The cost a risk that occurs adds: one sampler draw for a valid triple, the
\* constant itself for a nonzero constant, nothing otherwise.
CostSampleThroughSampler(r, s) ==
  IF ValidTriple(CostTriple(r)) THEN sampleTriangular(r.ca, r.cm, r.cb, s)
  ELSE [seed |-> s, value |-> 0]
CostSample(r, s) ==
  IF ValidTriple(CostTriple(r)) THEN sampleTriangular(r.ca, r.cm, r.cb, s)
  ELSE [seed |-> s, value |-> IF ConstantCost(r) THEN ToUnits(r.ca) ELSE 0]

\* The delay a risk that occurs adds: one sampler draw for a valid triple.
DelaySample(r, s) ==
  IF ValidTriple(r) THEN sampleTriangular(r.a, r.m, r.b, s) ELSE [seed |-> s, value |-> 0]

\* A risk that occurs: the kill flag, then the delay, then the cost.
AfterCost(r, c, kill, delay, cost) ==
  [seed |-> c.seed, killed |-> kill \/ r.kill = 1, totalDelay |-> delay,
   totalCost |-> JsAdd(cost, c.value)]

AfterDelay(r, t, kill, delay, cost) ==
  AfterCost(r, CostSample(r, t.seed), kill, JsAdd(delay, t.value), cost)

\* Step 2 of a trial: the loop over the active risks.
RECURSIVE BudgetLoop(_, _)
BudgetLoop(rs, acc) ==
  IF rs = <<>> THEN acc
  ELSE LET r == Head(rs)
           d == rng(acc.seed)
       IN  BudgetLoop(Tail(rs),
                      IF Occurs(d.u, r.p)
                      THEN AfterDelay(r, DelaySample(r, d.seed),
                                      acc.killed, acc.totalDelay, acc.totalCost)
                      ELSE [acc EXCEPT !.seed = d.seed])

\* Step 3: overBudget = totalCost > budgetSlack
OverBudget(cost, bs) == JsGt(cost, ToUnits(bs))

\* success = !killed AND totalDelay <= delaySlack AND !overBudget
BudgetSuccess(kill, delay, sl, over) == Success(kill, delay, sl) /\ ~over

\* Step 4: budgetExceededCount is incremented if overBudget, killed or not
ExceededCountedOnlyIfNotKilled(kill, over) == over /\ ~kill
ExceededCounted(kill, over) == over

\* the budget overrun is recorded only for trials not killed
OverrunRecorded(kill, over) == over /\ ~kill

BudgetResults(b) ==
  [runs                   |-> b.N,
   killedCount            |-> b.killedCount,
   notKilledCount         |-> b.notKilledCount,
   lateCount              |-> Len(b.lateDelays),
   budgetExceededCount    |-> b.budgetExceededCount,
   successPct             |-> <<b.successCount, b.N>>,
   killedPct              |-> <<b.killedCount, b.N>>,
   budgetExceededPct      |-> <<b.budgetExceededCount, b.N>>,
   expectedDelayNotKilled |-> IF b.notKilledCount # 0
                              THEN <<b.sumDelay, b.notKilledCount>> ELSE <<0, 1>>,
   expectedCostNotKilled  |-> IF b.notKilledCount # 0
                              THEN <<b.sumCost, b.notKilledCount>> ELSE <<0, 1>>,
   p50Late                |-> percentile(b.lateDelays, 50),
   p85Late                |-> percentile(b.lateDelays, 85),
   p90Late                |-> percentile(b.lateDelays, 90),
   p50Over                |-> percentile(b.overruns, 50),
   p85Over                |-> percentile(b.overruns, 85),
   p90Over                |-> percentile(b.overruns, 90),
   lateHistogram          |-> Histogram(b.lateDelays),
   overHistogram          |-> Histogram(b.overruns)]

\* Rows with costs, and the requests made of them.
KillCostRow  == CostOf(Row(50, 0, 0, 0, 1), 10, 10, 10)
TriangleRow  == CostOf(Row(50, 2, 4, 7, 0), 4, 8, 12)
OnlyCostRow  == CostOf(Row(0, 0, 0, 0, 0), 3, 3, 3)

BudgetLists ==
  { <<>>, <<CostRow>>, <<KillCostRow>>, <<KillRow, CostRow>>, <<TriangleRow>>,
    <<Row(100, 0, 0, 0, 1), TriangleRow>>, <<TriangleRow, KillCostRow>>,
    <<DelayRow, CostRow>>, <<ConstantRow>>, <<OnlyCostRow, CostOf(Row(50, 0, 0, 0, 0), 6, 6, 6)>> }

BudgetRequests ==
  {[Req(sd, rs, InHalves(n), sl) EXCEPT !.budgetSlack = bs] :
     sd \in {1, 7, 12345}, rs \in BudgetLists, n \in 1..MaxTrials,
     sl \in {0, 5}, bs \in {Missing, 5, 10}}

\* The engine has received the request d and is about to run its trials.
BudgetStart(d) ==
  [pc |-> "loop", request |-> d,
   seed |-> makeMulberry32(SeedOf(d, 0)).state,
   R |-> BudgetNormalize(d.risks), N |-> TrialCount(d),
   slack |-> SlackOf(d), budgetSlack |-> BudgetSlackOf(d),
   i |-> 0, killed |-> FALSE, totalDelay |-> 0, totalCost |-> 0,
   successCount |-> 0, killedCount |-> 0, notKilledCount |-> 0,
   budgetExceededCount |-> 0, sumDelay |-> 0, sumCost |-> 0,
   lateDelays |-> <<>>, overruns |-> <<>>]

\* One trial: steps 1 to 4.
BudgetTrial ==
  /\ budget.pc = "loop"
  /\ budget.i < budget.N
  /\ LET t    == BudgetLoop(budget.R, [seed |-> budget.seed, killed |-> FALSE,
                                       totalDelay |-> 0, totalCost |-> 0])
         over == OverBudget(t.totalCost, budget.budgetSlack)
         late == Late(t.killed, t.totalDelay, budget.slack)
         succ == BudgetSuccess(t.killed, t.totalDelay, budget.slack, over)
     IN  budget' =
           [pc |-> "loop", request |-> budget.request,
            seed |-> t.seed,
            R |-> budget.R, N |-> budget.N,
            slack |-> budget.slack, budgetSlack |-> budget.budgetSlack,
            i |-> budget.i + 1,
            killed |-> t.killed, totalDelay |-> t.totalDelay, totalCost |-> t.totalCost,
            successCount |-> budget.successCount + (IF succ THEN 1 ELSE 0),
            killedCount |-> budget.killedCount + (IF t.killed THEN 1 ELSE 0),
            notKilledCount |-> budget.notKilledCount + (IF t.killed THEN 0 ELSE 1),
            budgetExceededCount |->
              budget.budgetExceededCount + (IF ExceededCounted(t.killed, over) THEN 1 ELSE 0),
            sumDelay |-> IF t.killed THEN budget.sumDelay
                         ELSE JsAdd(budget.sumDelay, t.totalDelay),
            sumCost |-> IF t.killed THEN budget.sumCost
                        ELSE JsAdd(budget.sumCost, t.totalCost),
            lateDelays |-> IF late THEN Append(budget.lateDelays, t.totalDelay)
                           ELSE budget.lateDelays,
            overruns |-> IF OverrunRecorded(t.killed, over)
                         THEN Append(budget.overruns,
                                     t.totalCost - ToUnits(budget.budgetSlack))
                         ELSE budget.overruns]
  /\ UNCHANGED <<appVars, gen, draws, call>>

\* The result is produced once, after the last trial.
BudgetFinish ==
  /\ budget.pc = "loop"
  /\ budget.i = budget.N
  /\ budget' = [pc |-> "done", request |-> budget.request, results |-> BudgetResults(budget)]
  /\ UNCHANGED <<appVars, gen, draws, call>>

BudgetInit ==
  /\ AppOff
  /\ gen = [made |-> 0, state |-> <<0, 0>>]
  /\ draws = <<>>
  /\ call = NoCall
  /\ budget \in {BudgetStart(d) : d \in BudgetRequests}

BudgetNext == BudgetTrial \/ BudgetFinish

BudgetSpec == BudgetInit /\ [][BudgetNext]_vars

(***************************************************************************)
(* Properties                                                              *)
(***************************************************************************)
MessagesOf(r) == SelectSeq(posted, LAMBDA m : m.run = r)
DonesOf(r)    == SelectSeq(posted, LAMBDA m : m.run = r /\ m.type = "done")
ProgressOf(r) == SelectSeq(posted, LAMBDA m : m.run = r /\ m.type = "progress")
RequestOf(r)  == (CHOOSE st \in started : st.id = r).request
StartedIds    == {st.id : st \in started}
DoneResults   == {[id |-> posted[k].run, results |-> posted[k].results] :
                    k \in {j \in 1..Len(posted) : posted[j].type = "done"}}

\* C1: the runner executes exactly N trials: inside the loop every trial done
\* so far is counted once, as killed or as not killed, and the result reports
\* runs = N = the clamped request with killedCount + notKilledCount = runs.
C1_EveryTrialCountedOnce ==
  /\ pc = "loop" => (i <= N /\ killedCount + notKilledCount = i)
  /\ \A d \in DoneResults :
       /\ d.results.runs = TrialCount(RequestOf(d.id))
       /\ d.results.killedPct[2] = d.results.runs
       /\ d.results.killedPct[1] + d.results.notKilledCount = d.results.runs

\* A finished run of three trials, some killed and some not.
C1_Witness ==
  \E d \in DoneResults :
    /\ d.results.runs = 3
    /\ d.results.killedPct[1] > 0
    /\ d.results.notKilledCount > 0

\* C2: a run that is not abandoned emits exactly one "done" message once its
\* handler has returned, never more than one before, and the "done" message is
\* the last message of its run: no progress message follows it.
C2_OneResultLast ==
  \A r \in StartedIds :
    /\ Len(DonesOf(r)) <= 1
    /\ (r \in completed /\ r \notin abandoned) => Len(DonesOf(r)) = 1
    /\ Len(DonesOf(r)) = 1 => MessagesOf(r)[Len(MessagesOf(r))].type = "done"

\* Two runs have finished, each with progress messages before its result.
C2_Witness ==
  /\ completed = {1, 2}
  /\ \A r \in completed : Len(MessagesOf(r)) >= 2 /\ Len(DonesOf(r)) = 1

\* C3: the progress messages of a run of N trials are, in the order posted,
\* done = 0, 1000, 2000, ... (one per multiple of 1000 below the number of
\* trials executed so far, below N when the run has finished), each with
\* total = N.
C3_ProgressEveryThousand ==
  \A r \in StartedIds :
    LET n     == TrialCount(RequestOf(r))
        ps    == ProgressOf(r)
        upto  == IF r \in completed THEN n
                 ELSE IF pc = "loop" /\ data.id = r THEN i ELSE 0
        count == IF upto = 0 THEN 0 ELSE ((upto - 1) \div 1000) + 1
    IN  /\ \A k \in 1..Len(ps) : ps[k].done = 1000 * (k - 1) /\ ps[k].total = n
        /\ (r \in completed \/ (pc = "loop" /\ data.id = r)) => Len(ps) = count

\* A finished run of 20000 trials with its 20 progress messages, the last at 19000.
C3_Witness ==
  \E r \in completed :
    /\ Len(ProgressOf(r)) = 20
    /\ ProgressOf(r)[20].done = 19000

\* Two requests that give the same seed, risk list, iterations and slack.
SameInputs(a, b) ==
  /\ a.seed = b.seed
  /\ a.risks = b.risks
  /\ a.iterations = b.iterations
  /\ a.slack = b.slack

\* C4: determinism: two finished runs whose requests give the same numeric
\* seed, the same risks, the same iterations and the same slack have results
\* that are equal field for field.
C4_SameInputsSameResults ==
  \A d1 \in DoneResults : \A d2 \in DoneResults :
    (IsFinite(RequestOf(d1.id).seed) /\ SameInputs(RequestOf(d1.id), RequestOf(d2.id)))
      => d1.results = d2.results

\* C5: a request that supplies an integer seed (0 and negatives included) has
\* its generator seeded with exactly that value, whatever the clock says.
C5_SuppliedSeedIsUsed ==
  \A st \in started :
    IsFinite(st.request.seed) => st.seed = ToInt32(st.request.seed)

\* C6: once stop() has abandoned a run, results stays null until a later run is
\* made, and nothing the abandoned run posted reaches the caller's state: the
\* caller's results and progress only ever take the value of a message of a
\* run that has not been abandoned.
C6_NothingDeliveredAfterStop ==
  /\ [](issued \in abandoned => results = Null)
  /\ [][(results' # results /\ results' # Null)
          => (/\ outbox # <<>>
              /\ Head(outbox).type = "done"
              /\ Head(outbox).run \notin abandoned')]_vars
  /\ [][(progress' # progress /\ progress' # Null /\ issued' = issued)
          => (/\ outbox # <<>>
              /\ Head(outbox).type = "progress"
              /\ Head(outbox).run \notin abandoned')]_vars

\* stop() has abandoned a run whose result the worker had already posted.
C6_Witness ==
  \E r \in abandoned :
    /\ Len(DonesOf(r)) = 1
    /\ workerRef > 1
    /\ results = Null

\* The number of trials the claim gives for a request (iterations in halves)
\* and an upper limit: 1 when below 1 or not a number, the limit when above
\* it, floor(iterations) in between.
ClaimedTrials(it, limit) ==
  LET x == JsNumber(it)
  IN  IF x = NaN \/ x < 2 THEN 1
      ELSE IF x > 2 * limit THEN limit
      ELSE x \div 2

NoOtherMessages == \A k \in 1..Len(posted) : posted[k].type \in {"progress", "done"}

\* C7 (as amended): the number of trials is iterations clamped to [1, 20000]:
\* 1 below 1 or when not a number, 20000 above 20000, floor(iterations) in
\* between; only progress and done messages are posted.
C7_TrialsClampedTo20000 ==
  /\ pc = "loop" => N = ClaimedTrials(data.iterations, MaxIterations)
  /\ \A d \in DoneResults :
       d.results.runs = ClaimedTrials(RequestOf(d.id).iterations, MaxIterations)
  /\ NoOtherMessages

\* C7 (as claimed): the number of trials is iterations clamped to [1, 50000].
C7_TrialsClampedTo50000 ==
  /\ pc = "loop" => N = ClaimedTrials(data.iterations, 50 * 1000)
  /\ \A d \in DoneResults :
       d.results.runs = ClaimedTrials(RequestOf(d.id).iterations, 50 * 1000)
  /\ NoOtherMessages

\* A request above 20000 has run 20000 trials.
C7_Witness ==
  \E d \in DoneResults :
    /\ RequestOf(d.id).iterations > 2 * MaxIterations
    /\ d.results.runs = MaxIterations

\* C8 (as amended): a trial is counted in successCount if and only if it is
\* not killed and its totalDelay is <= slack.
C8_SuccessIffNotKilledWithinSlack ==
  [][i' = i + 1
       => successCount' = successCount
            + (IF ~anyKill' /\ JsLe(totalDelay', ToUnits(slack)) THEN 1 ELSE 0)]_vars

\* C8 (as claimed): a trial is counted in successCount if and only if it is
\* not killed, its totalDelay is <= delaySlack and its totalCost is not
\* greater than budgetSlack.
C8_SuccessAlsoWithinBudget ==
  [][i' = i + 1
       => successCount' = successCount
            + (IF /\ ~anyKill'
                  /\ JsLe(totalDelay', ToUnits(slack))
                  /\ ~JsGt(TrialCost(data.risks), BudgetSlackOf(data))
               THEN 1 ELSE 0)]_vars

\* Trials of all three kinds have been counted: successful, killed and late.
C8_Witness ==
  /\ pc = "loop"
  /\ successCount > 0
  /\ killedCount > 0
  /\ Len(lateDelays) > 0

\* The condition of the claim on a normalised row.
ClaimKept(x) == x.p > 0 /\ (x.kill = 1 \/ ~(x.a = 0 /\ x.m = 0 /\ x.b = 0))

\* C9: the active list is the rows with probability > 0 that have the kill
\* flag or a triple that is not all-zero, in the order of the input; the other
\* rows are dropped and no error is reported.
C9_ActiveRowsKeptInOrder ==
  /\ pc = "loop" =>
       R = SelectSeq([k \in 1..Len(data.risks) |-> ActiveRisk(data.risks[k])], ClaimKept)
  /\ NoOtherMessages

\* Of three rows the middle one is dropped; the two kept are in input order.
C9_Witness ==
  /\ pc = "loop"
  /\ Len(data.risks) = 3
  /\ Len(R) = 2
  /\ R[1] = ActiveRisk(data.risks[1])
  /\ R[2] = ActiveRisk(data.risks[3])
  /\ R[1] # R[2]

\* A number that is missing or not finite, replaced by 0.
ZeroIfNotFinite(x) == IF IsFinite(JsNumber(x)) THEN JsNumber(x) ELSE 0

ZeroedRow(r) ==
  [r EXCEPT !.likelihood = ZeroIfNotFinite(r.likelihood),
            !.min = ZeroIfNotFinite(r.min), !.mode = ZeroIfNotFinite(r.mode),
            !.max = ZeroIfNotFinite(r.max)]

\* C10: every numeric field of a row that is missing or not finite (NaN,
\* +Infinity, -Infinity) is treated as 0: the active list is the one the same
\* rows give with those fields set to 0, so that a row with a non-finite
\* likelihood has probability 0 and is dropped.
C10_NonFiniteFieldsAreZero ==
  pc = "loop" =>
    R = Normalize([k \in 1..Len(data.risks) |-> ZeroedRow(data.risks[k])])

\* The active list with every kill flag cleared.
WithoutKill(rs) == [k \in 1..Len(rs) |-> [rs[k] EXCEPT !.kill = 0]]

\* C11: a kill is an overlay, not an early exit: in a trial where a kill risk
\* occurs the later active risks are still evaluated, so the trial takes the
\* draws and accumulates the totalDelay that the same list takes and
\* accumulates from the same generator state with no kill flag set.
C11_KillDoesNotEndTheTrial ==
  [][(i' = i + 1 /\ anyKill')
       => LET t == RiskLoop(WithoutKill(R), seed, FALSE, 0)
          IN  seed' = t.seed /\ totalDelay' = t.totalDelay]_vars

\* A trial is killed by the first active risk and delayed by a later one.
C11_Witness ==
  /\ pc = "loop"
  /\ i > 0
  /\ Len(R) = 2
  /\ R[1].kill = 1 /\ R[1].p = 100
  /\ R[2].kill = 0
  /\ anyKill
  /\ IsFinite(totalDelay) /\ totalDelay > 0

\* C12: only not-killed trials feed the delay statistics: a trial's totalDelay
\* is added to sumDelayNotKilled only if the trial is not killed, it is pushed
\* onto lateDelays if and only if the trial is not killed and totalDelay > slack,
\* and the reported lateCount is the number of delays pushed.
C12_OnlyNotKilledFeedDelayStatistics ==
  /\ [][i' = i + 1
          => /\ sumDelayNotKilled' = IF anyKill' THEN sumDelayNotKilled
                                     ELSE JsAdd(sumDelayNotKilled, totalDelay')
             /\ lateDelays' = IF ~anyKill' /\ JsGt(totalDelay', ToUnits(slack))
                              THEN Append(lateDelays, totalDelay')
                              ELSE lateDelays]_vars
  /\ [][(pc = "loop" /\ pc' = "idle" /\ Len(posted') > Len(posted))
          => posted'[Len(posted')].results.lateCount = Len(lateDelays)]_vars

\* A run has had a killed trial, a late trial, and a trial that is
\* not killed and exactly at the slack or below it.
C12_Witness ==
  \E d \in DoneResults :
    /\ d.results.lateCount > 0
    /\ d.results.killedPct[1] > 0
    /\ d.results.notKilledCount > d.results.lateCount

(***************************************************************************)
(* The recurrence of the generator, bit by bit: a 32-bit integer is the    *)
(* sequence of its 32 bits, lowest first.                                  *)
(***************************************************************************)
\* the two's-complement bits of an integer
RECURSIVE BitsOfInt(_, _)
BitsOfInt(x, n) == IF n = 0 THEN <<>> ELSE <<x % 2>> \o BitsOfInt(x \div 2, n - 1)

\* (x + y) mod 2^32, from bit j on with carry c
RECURSIVE AddFrom(_, _, _, _)
AddFrom(x, y, j, c) ==
  IF j > 32 THEN <<>>
  ELSE <<(x[j] + y[j] + c) % 2>> \o AddFrom(x, y, j + 1, (x[j] + y[j] + c) \div 2)

AddBits(x, y) == AddFrom(x, y, 1, 0)

RECURSIVE XorFrom(_, _, _)
XorFrom(x, y, j) ==
  IF j > 32 THEN <<>> ELSE <<(x[j] + y[j]) % 2>> \o XorFrom(x, y, j + 1)

RECURSIVE OrFrom(_, _, _)
OrFrom(x, y, j) ==
  IF j > 32 THEN <<>>
  ELSE <<IF x[j] + y[j] > 0 THEN 1 ELSE 0>> \o OrFrom(x, y, j + 1)

\* x >> k on the unsigned value
RECURSIVE ShrFrom(_, _, _)
ShrFrom(x, k, j) ==
  IF j > 32 THEN <<>>
  ELSE <<IF j + k <= 32 THEN x[j + k] ELSE 0>> \o ShrFrom(x, k, j + 1)

XorBits(x, y) == XorFrom(x, y, 1)
OrBits(x, y)  == OrFrom(x, y, 1)
ShrBits(x, k) == ShrFrom(x, k, 1)

\* the value of bits lo..hi
RECURSIVE ValueOf(_, _, _)
ValueOf(x, lo, hi) == IF lo > hi THEN 0 ELSE x[lo] + 2 * ValueOf(x, lo + 1, hi)

\* the four bytes of x, lowest first, and the bits of four bytes
BytesOf(x) == [n \in 1..4 |-> ValueOf(x, (8 * n) - 7, 8 * n)]
BitsOfBytes(r) ==
  BitsOfInt(r[1], 8) \o BitsOfInt(r[2], 8) \o BitsOfInt(r[3], 8) \o BitsOfInt(r[4], 8)

\* (x * y) mod 2^32, by long multiplication of the bytes
MulBits(x, y) ==
  LET X  == BytesOf(x)
      Y  == BytesOf(y)
      p1 == X[1] * Y[1]
      p2 == (X[1] * Y[2]) + (X[2] * Y[1]) + (p1 \div 256)
      p3 == (X[1] * Y[3]) + (X[2] * Y[2]) + (X[3] * Y[1]) + (p2 \div 256)
      p4 == (X[1] * Y[4]) + (X[2] * Y[3]) + (X[3] * Y[2]) + (X[4] * Y[1]) + (p3 \div 256)
  IN  BitsOfBytes(<<p1 % 256, p2 % 256, p3 % 256, p4 % 256>>)

\* s after k draws: s = (s + 0x6D2B79F5) mod 2^32 on each draw
RECURSIVE RecurrenceState(_, _)
RecurrenceState(sd, k) ==
  IF k = 0 THEN BitsOfInt(sd, 32)
  ELSE AddBits(RecurrenceState(sd, k - 1), BitsOfInt(1831565813, 32))

\* the numerator of the draw made from state s: the two mixing steps
RecurrenceDraw(s) ==
  LET t1 == MulBits(XorBits(s, ShrBits(s, 15)), OrBits(s, BitsOfInt(1, 32)))
      t2 == XorBits(AddBits(t1, MulBits(XorBits(t1, ShrBits(t1, 7)),
                                        OrBits(t1, BitsOfInt(61, 32)))), t1)
      u  == XorBits(t2, ShrBits(t2, 14))
  IN  <<ValueOf(u, 17, 32), ValueOf(u, 1, 16)>>

\* C16: for every 32-bit seed the k-th draw of the generator is the k-th value
\* of the recurrence computed on 32-bit wrapping integers (state advanced by
\* 0x6D2B79F5 on each draw, then the two mixing steps), so the sequence is fixed
\* by the seed; the first draw for seed 12345 is 4207900869 / 2^32.
C16_DrawsFollowTheRecurrence ==
  /\ \A k \in 1..Len(draws) :
       draws[k] = RecurrenceDraw(RecurrenceState(gen.made, k))
  /\ (gen.made = 12345 /\ Len(draws) >= 1) => draws[1] = <<64207, 30917>>

\* Six draws have been taken from the generator seeded with -2^31.
C16_Witness ==
  /\ gen.made = (0 - 2147483647) - 1
  /\ Len(draws) = MaxDraws
  /\ \A j \in 1..Len(draws) : \A k \in 1..Len(draws) : j # k => draws[j] # draws[k]

\* C17: every draw lies in [0,1): its numerator is an unsigned 32-bit integer
\* (both 16-bit halves in 0..65535) divided by 2^32, whatever the seed and the
\* position in the sequence, so a draw is never 1 and never negative.
C17_DrawsAreInUnitInterval ==
  \A k \in 1..Len(draws) :
    /\ draws[k][1] \in 0..(W16 - 1)
    /\ draws[k][2] \in 0..(W16 - 1)

\* Draws of both halves of the interval have been made: one whose top bit is
\* set and one whose top bit is clear.
C17_Witness ==
  /\ \E k \in 1..Len(draws) : draws[k][1] >= W16 \div 2
  /\ \E k \in 1..Len(draws) : draws[k][1] < W16 \div 2

\* a < b and a <= m <= b
ClaimedValid(a, m, b) == JsLt(a, b) /\ JsLe(a, m) /\ JsLe(m, b)

\* C18: sampleTriangular returns, for every valid triple (a < b and
\* a <= m <= b) and every draw, a sample that lies in [a, b], and for every
\* invalid triple 0, never a.
C18_SampleInRangeOrZero ==
  call.fn = "sampleTriangular" =>
    IF ClaimedValid(call.a, call.m, call.b)
    THEN JsLe(ToUnits(call.a), call.value) /\ JsLe(call.value, ToUnits(call.b))
    ELSE call.value = 0 /\ ~call.drew

\* The number of elements of arr that are below v, and at or below v.
Below(arr, v)   == Cardinality({k \in 1..Len(arr) : arr[k] < v})
UpTo(arr, v)    == Cardinality({k \in 1..Len(arr) : arr[k] <= v})
\* The k-th smallest element of arr, k from 0.
Ranked(arr, k)  ==
  CHOOSE v \in {arr[j] : j \in 1..Len(arr)} : Below(arr, v) <= k /\ k < UpTo(arr, v)

\* 100 times the percentile the claim gives, for p in percent: idx = (n-1)*p/100.
ClaimedPercentile(arr, p) ==
  LET idx100 == (Len(arr) - 1) * p
      lo     == idx100 \div 100
      w100   == idx100 % 100
  IN  IF arr = <<>> THEN 0
      ELSE IF w100 = 0 THEN 100 * Ranked(arr, lo)
      ELSE (Ranked(arr, lo) * (100 - w100)) + (Ranked(arr, lo + 1) * w100)

\* C14: percentile(arr, p) is 0 for an empty array and otherwise, with s = arr
\* sorted ascending and idx = (n-1)*p, s[idx] when idx is an integer and
\* s[floor(idx)]*(1-w) + s[ceil(idx)]*w with w = idx - floor(idx) when not;
\* percentile([1,2,3,4], 0.5) = 2.5; the input array is not reordered.
C14_PercentileInterpolates ==
  /\ (call.fn = "percentile" /\ call.done) =>
       /\ call.value = ClaimedPercentile(call.arr, call.p)
       /\ call.left = call.arr
       /\ call.arr = <<>> => call.value = 0
  /\ (call.fn = "percentile" /\ call.done /\ call.arr = <<1, 2, 3, 4>> /\ call.p = 50)
       => call.value = 250

\* An unsorted array has been given, with a p that falls between two elements.
C14_Witness ==
  /\ call.fn = "percentile"
  /\ call.done
  /\ call.arr = <<4, 1, 3, 1>>
  /\ call.p = 85
  /\ call.value = 355

\* bins[0] + ... + bins[b]
RECURSIVE SumUpTo(_, _)
SumUpTo(bins, b) == IF b < 0 THEN 0 ELSE bins[b] + SumUpTo(bins, b - 1)

\* C15: histogram mass conservation: for every non-empty source array the
\* histogram has 20 buckets, with indices 0..19, whose counts sum to the
\* length of the array; for an empty array no histogram is emitted.
C15_HistogramKeepsEveryValue ==
  (call.fn = "histogram" /\ call.done) =>
    IF call.arr = <<>> THEN call.value = Null
    ELSE /\ call.value # Null
         /\ DOMAIN call.value[1].bins = 0..19
         /\ \A b \in 0..19 : call.value[1].bins[b] >= 0
         /\ SumUpTo(call.value[1].bins, 19) = Len(call.arr)

\* An array has been put in more than one bucket, the last one among them.
C15_Witness ==
  /\ call.fn = "histogram"
  /\ call.done
  /\ call.arr = <<1, 4, 2, 4>>
  /\ call.value[1].bins[19] = 2
  /\ call.value[1].bins[5] = 1
  /\ call.value[1].bins[10] = 1

\* A kill risk whose likelihood is 100 (or more: it is clamped).
CertainKill(x) == x.kill = 1 /\ x.p = 100

\* C19: scenario A, generalised: if the active list contains a kill risk with
\* likelihood 100, every trial is killed: killedCount = runs, successCount = 0
\* and notKilledCount = 0, for any seed and any iterations.
C19_CertainKillKillsEveryTrial ==
  /\ (pc = "loop" /\ \E k \in 1..Len(R) : CertainKill(R[k]))
       => (killedCount = i /\ successCount = 0 /\ notKilledCount = 0)
  /\ \A d \in DoneResults :
       LET rs == Normalize(RequestOf(d.id).risks)
       IN  (\E k \in 1..Len(rs) : CertainKill(rs[k]))
             => /\ d.results.killedPct = <<d.results.runs, d.results.runs>>
                /\ d.results.successPct[1] = 0
                /\ d.results.notKilledCount = 0

\* A hundred trials with a certain kill between two delays, seeded by the
\* clock, have all been killed.
C19_Witness ==
  \E d \in DoneResults :
    /\ RequestOf(d.id).seed = Missing
    /\ Len(RequestOf(d.id).risks) = 3
    /\ d.results.runs = 100
    /\ d.results.killedPct = <<100, 100>>

\* A risk without the kill flag whose triple is a = m = b != 0.
Degenerate(x) == x.kill = 0 /\ x.a = x.m /\ x.m = x.b /\ x.a # 0

\* C20: scenario B, generalised: a non-kill risk whose triple is degenerate
\* with a = m = b != 0 is kept as active but contributes 0 delay whenever it
\* occurs; with such a risk alone at likelihood 100 and slack 0 every trial
\* has totalDelay = 0 and successCount = iterations.
C20_DegenerateTripleAddsNothing ==
  /\ pc = "loop" =>
       \A k \in 1..Len(data.risks) :
         LET x == ActiveRisk(data.risks[k])
         IN  (x.p > 0 /\ Degenerate(x)) => \E j \in 1..Len(R) : R[j] = x
  /\ (pc = "loop" /\ R # <<>> /\ \A k \in 1..Len(R) : Degenerate(R[k]))
       => (totalDelay = 0 /\ sumDelayNotKilled = 0 /\ lateDelays = <<>>)
  /\ (pc = "loop" /\ Len(R) = 1 /\ Degenerate(R[1]) /\ R[1].p = 100 /\ slack = 0)
       => successCount = i
  /\ \A d \in DoneResults :
       LET rs == Normalize(RequestOf(d.id).risks)
       IN  (Len(rs) = 1 /\ Degenerate(rs[1]) /\ rs[1].p = 100
              /\ SlackOf(RequestOf(d.id)) = 0)
             => d.results.successPct = <<d.results.runs, d.results.runs>>

\* A hundred trials of the risk (100, (5,5,5)) alone with slack 0 have all
\* succeeded.
C20_Witness ==
  \E d \in DoneResults :
    /\ RequestOf(d.id).risks = <<ConstantRow>>
    /\ RequestOf(d.id).slack = 0
    /\ d.results.runs = 100
    /\ d.results.successPct = <<100, 100>>

RECURSIVE ConstantsOccurred(_, _)
ConstantsOccurred(rs, s) ==
  IF rs = <<>> THEN 0
  ELSE LET r   == Head(rs)
           d   == rng(s)
           occ == Occurs(d.u, r.p)
           nxt == IF occ /\ ValidTriple(r)
                  THEN sampleTriangular(r.a, r.m, r.b, d.seed).seed ELSE d.seed
       IN  (IF occ /\ r.ca = r.cm /\ r.cm = r.cb THEN r.ca ELSE 0)
             + ConstantsOccurred(Tail(rs), nxt)

NoSampledCost(rs) == \A k \in 1..Len(rs) : ~ValidTriple([a |-> rs[k].ca, m |-> rs[k].cm, b |-> rs[k].cb])

SeedAtStart(r) == (CHOOSE st \in started : st.id = r).seed

\* C22: scenario D: when normalisation leaves zero active risks, every trial
\* succeeds: successCount = iterations (successPct = 1), killedPct = 0,
\* lateCount = 0, expectedDelayNotKilled = 0 and all percentiles are 0, and
\* no generator draw is consumed.
C22_NoActiveRiskEveryTrialSucceeds ==
  /\ (pc = "loop" /\ R = <<>>)
       => /\ seed = SeedAtStart(data.id)
          /\ successCount = i /\ killedCount = 0 /\ notKilledCount = i
          /\ sumDelayNotKilled = 0 /\ lateDelays = <<>>
          /\ ~anyKill /\ totalDelay = 0
  /\ \A d \in DoneResults :
       Normalize(RequestOf(d.id).risks) = <<>>
         => /\ d.results.successPct = <<d.results.runs, d.results.runs>>
            /\ d.results.killedPct[1] = 0
            /\ d.results.lateCount = 0
            /\ d.results.expectedDelayNotKilled[1] = 0
            /\ d.results.p50Late = 0 /\ d.results.p85Late = 0 /\ d.results.p90Late = 0

\* The rows of a request were all filtered out and its trials all succeeded.
C22_Witness ==
  \E d \in DoneResults :
    /\ RequestOf(d.id).risks # <<>>
    /\ Normalize(RequestOf(d.id).risks) = <<>>
    /\ d.results.runs > 1
    /\ d.results.successPct = <<d.results.runs, d.results.runs>>

FirstRows(rs) == SubSeq(rs, 1, IF Len(rs) < MaxRows THEN Len(rs) ELSE MaxRows)

\* C23 (as claimed): the engine truncates the risk list to its first 50
\* entries: for a request carrying more than 50 rows only rows 1..50 can
\* become active risks.
C23_OnlyFirstFiftyRowsCount ==
  pc = "loop" => R = Normalize(FirstRows(data.risks))

\* C23 (amended): the engine does not truncate the risk list: every row of
\* the request it receives can become an active risk, the 51st included, and
\* a certain kill in row 51 kills every trial; the list is cut to its first
\* 50 rows by handleRun, before the request is posted.
C23_EveryRowOfTheRequestCounts ==
  /\ pc = "loop" => R = Normalize(data.risks)
  /\ (pc = "loop" /\ data.risks = LongRows)
       => /\ Len(R) = 2
          /\ R[2] = ActiveRisk(LongRows[MaxRows + 1])
          /\ killedCount = i
  /\ \A d \in DoneResults :
       /\ RequestOf(d.id).risks = LongRows
            => d.results.killedPct = <<d.results.runs, d.results.runs>>
       /\ Len(RequestOf(d.id).risks) = MaxRows
            => /\ RequestOf(d.id).risks = Prepare(LongRows)
               /\ d.results.killedPct[1] = 0

\* The trials of a request of 51 rows have all been killed by its last row.
C23_Witness ==
  \E d \in DoneResults :
    /\ Len(RequestOf(d.id).risks) = MaxRows + 1
    /\ d.results.runs = 2
    /\ d.results.killedPct = <<2, 2>>

\* The runs that have been posted and have neither produced their result
\* nor been abandoned.
InFlight == {r \in 1..issued : r \notin completed \cup abandoned}

\* C24: at most one run is in flight per worker instance: in every reachable
\* state of the caller a worker has at most one run request that has been
\* posted and has not yet produced its result or been abandoned.
C24_AtMostOneRunInFlight ==
  /\ Cardinality(InFlight) <= 1
  /\ Len(inbox) + (IF pc = "loop" THEN 1 ELSE 0) <= 1
  /\ \A r \in InFlight : r = issued

\* The second run is in its trials after the first one has ended, and after
\* the first one has been stopped.
C24_Witness ==
  /\ issued = 2
  /\ InFlight = {2}
  /\ pc = "loop"
  /\ i > 0
  /\ 1 \in abandoned

\* C25: in every result the rate fields are fractions in [0,1]: successPct
\* and killedPct are each a count divided by runs, between 0 and 1, with
\* successPct + killedPct <= 1; expectedDelayNotKilled is the delay sum over
\* the not-killed trials divided by notKilledCount, and is 0 (no division by
\* zero) when notKilledCount = 0.
C25_RatesAreFractions ==
  \A d \in DoneResults :
    LET r == d.results
    IN  /\ r.runs >= 1
        /\ r.successPct[2] = r.runs /\ r.killedPct[2] = r.runs
        /\ r.successPct[1] \in 0..r.runs
        /\ r.killedPct[1] \in 0..r.runs
        /\ r.successPct[1] + r.killedPct[1] <= r.runs
        /\ r.killedPct[1] = r.runs - r.notKilledCount
        /\ r.successPct[1] <= r.notKilledCount
        /\ IF r.notKilledCount = 0 THEN r.expectedDelayNotKilled = <<0, 1>>
           ELSE r.expectedDelayNotKilled[2] = r.notKilledCount
        /\ (r.notKilledCount = 1 /\ r.lateCount = 1)
             => r.p50Late = 100 * r.expectedDelayNotKilled[1]

\* A result with both rates strictly between 0 and 1 and a mean delay that
\* is not 0.
C25_Witness ==
  \E d \in DoneResults :
    /\ d.results.successPct[1] \in 1..(d.results.runs - 1)
    /\ d.results.killedPct[1] \in 1..(d.results.runs - 1)
    /\ IsFinite(d.results.expectedDelayNotKilled[1])
    /\ d.results.expectedDelayNotKilled[1] > 0

\* The handler has just received a request: nothing is left of earlier runs.
StartsAnew ==
  (pc = "loop" /\ i = 0)
    => /\ successCount = 0 /\ killedCount = 0 /\ notKilledCount = 0
       /\ sumDelayNotKilled = 0 /\ lateDelays = <<>>
       /\ \E now \in ClockReads(data) : seed = ToInt32(SeedOf(data, now))

\* C26: the engine retains no state between runs: a run request processed by
\* a worker that has already completed an earlier run yields the same result
\* as the same request (same seed) processed by the worker when it was fresh;
\* generator state, counters and the late-delay array start anew for each
\* request.
C26_UsedWorkerSameResultAsFresh ==
  /\ StartsAnew
  /\ \A fresh \in DoneResults : \A used \in DoneResults :
       (/\ fresh.id = 1 /\ used.id = 2
        /\ IsFinite(RequestOf(used.id).seed)
        /\ SameInputs(RequestOf(fresh.id), RequestOf(used.id)))
         => used.results = fresh.results

\* Run k has been started and the caller waits for it.
Awaited(k) == issued = k /\ running /\ workerRef # 0

\* Run k has delivered its result, or the user has stopped it or left the page.
Settled(k) == (results # Null /\ ~running) \/ k \in abandoned \/ workerRef = 0

\* C27: liveness after cancellation: after stop() has replaced the worker, a
\* run started with run() eventually delivers its result to the caller:
\* results becomes non-null and running returns to false (unless the user
\* stops that run too), exactly as for a run on the worker made on mount.
C27_RunAfterStopDeliversResult ==
  \A k \in 1..MaxRuns : (Awaited(k) /\ workerRef > 1) ~> Settled(k)

\* A run on the worker made on mount does deliver its result.
RunOnFirstWorkerDeliversResult ==
  \A k \in 1..MaxRuns : (Awaited(k) /\ workerRef = 1) ~> Settled(k)

\* The draws of one trial as the claim describes them, from the generator
\* state acc.seed on: one occurrence draw per risk of rs, in list order,
\* followed by one magnitude draw if the risk occurs and its triple is valid.
RECURSIVE TrialDraws(_, _)
TrialDraws(rs, acc) ==
  IF rs = <<>> \/ acc.n < 0 THEN acc
  ELSE LET r   == Head(rs)
           d   == rng(acc.seed)
           mag == Occurs(d.u, r.p) /\ ClaimedValid(r.a, r.m, r.b)
       IN  TrialDraws(Tail(rs),
                      [seed |-> IF mag THEN rng(d.seed).seed ELSE d.seed,
                       n    |-> acc.n + (IF mag THEN 2 ELSE 1)])

\* The draws of n trials in a row.
\* The generator state n draws after s.
RECURSIVE Advanced(_, _)
Advanced(s, n) ==
  IF n = 0 \/ s[1] < 0 THEN s ELSE Advanced(Add32(s, Increment), n - 1)

\* C28: draw consumption is fixed by list order: in each trial every active
\* risk, in list order, consumes exactly one occurrence draw, followed
\* immediately by exactly one magnitude draw if and only if the risk occurs
\* and its triple is valid (b > a and a <= m <= b); a trial over R active
\* risks consumes between R and 2R draws.
C28_DrawsFollowListOrder ==
  [][(pc = "loop" /\ pc' = "loop" /\ i' = i + 1)
       => LET t == TrialDraws(R, [seed |-> seed, n |-> 0])
          IN  /\ seed' = t.seed
              /\ seed' = Advanced(seed, t.n)
              /\ t.n >= Len(R)
              /\ t.n <= 2 * Len(R)]_vars

\* Trials over two risks have taken more than one draw per risk and fewer
\* than two: a magnitude was drawn for some risks and not for others.
C28_Witness ==
  /\ pc = "loop"
  /\ i = MaxTrials
  /\ Len(R) = 2
  /\ R[1].kill = 0 /\ R[2].kill = 0
  /\ \E n \in (i * 2 + 1)..(i * 4 - 1) : seed = Advanced(SeedAtStart(data.id), n)
  /\ lateDelays # <<>>

\* C29: in every state the caller reaches by run(), stop() and the delivery
\* of progress and done messages, running = false implies progress = null (a
\* progress indicator never survives the end or the abandonment of a run),
\* and running = true implies results = null.
C29_CallerStateInvariant ==
  /\ ~running => progress = Null
  /\ running => results = Null

\* Both ends of a run have happened: one run was ended by its done message
\* after the progress message of the worker had been shown, the next one was
\* abandoned by stop(), and nothing is running.
C29_Witness ==
  /\ ~running
  /\ progress = Null
  /\ completed \ abandoned # {}
  /\ abandoned # {}
  /\ \E k \in 1..Len(posted) : posted[k].type = "progress"

\* No active risk has an infinite min, mode or max.
NoInfiniteTriple(rs) ==
  \A k \in 1..Len(rs) : IsFinite(rs[k].a) /\ IsFinite(rs[k].m) /\ IsFinite(rs[k].b)

\* The trials that were not killed split into successes and late trials
\* whenever the active list has finite triples only: totalDelay is then a
\* number, and a number is either <= slack or > slack.
SplitWhenTriplesAreFinite ==
  /\ (pc = "loop" /\ NoInfiniteTriple(R))
       => successCount + Len(lateDelays) = notKilledCount
  /\ \A d \in DoneResults :
       NoInfiniteTriple(Normalize(RequestOf(d.id).risks))
         => d.results.successPct[1] + d.results.lateCount = d.results.notKilledCount

\* C30: in every result the trials that were not killed split exactly into
\* successes and late trials: successCount + lateCount = notKilledCount, for
\* every risk list, slack, seed and iteration count.
C30_NotKilledSplitIntoSuccessAndLate ==
  /\ pc = "loop" => successCount + Len(lateDelays) = notKilledCount
  /\ \A d \in DoneResults :
       d.results.successPct[1] + d.results.lateCount = d.results.notKilledCount

====
